---- MODULE Spec2Model ----
(***************************************************************************)
(* A model of soevent (src/src/main.rs, src/src/imp.rs): one run of the    *)
(* command-line fetcher, from argument parsing through edition resolution, *)
(* the metadata fetch, the two-level buffer_unordered fan-out of map       *)
(* downloads and the sequential write loop.                                *)
(*                                                                         *)
(* Strings are sequences of chunks (a chunk is a run of characters with no *)
(* separator in it, or one separator character "/" or ":"), so that        *)
(* format!, PathBuf::join, u32 parsing and URL parsing are computed on the *)
(* text as the code computes them.                                         *)
(***************************************************************************)
EXTENDS Integers, Sequences, FiniteSets, TLC

\* ------------------------------------------------------------------ bounds
\* Largest edition id the metadata host and the command line use.
MaxId == 2
\* Longest edition list the metadata host answers with.
MaxListLen == 2

\* --------------------------------------------------------------- sequences
Range(s) == {s[i] : i \in 1..Len(s)}

Last(s) == s[Len(s)]

SeqsUpTo(S, n) == UNION {[1..k -> S] : k \in 0..n}

RECURSIVE Flatten(_)
Flatten(ss) == IF ss = <<>> THEN <<>> ELSE Head(ss) \o Flatten(Tail(ss))

\* ----------------------------------------------------------- text helpers
\* u32::to_string / "{}" of an integer: the decimal digits, most significant
\* first, one chunk per digit.
RECURSIVE Digits(_)
Digits(n) == IF n < 10 THEN <<ToString(n)>> ELSE Digits(n \div 10) \o <<ToString(n % 10)>>

U32ToString(n) == Digits(n)

DigitChunks == {ToString(d) : d \in 0..9}

DigitVal(c) == CHOOSE d \in 0..9 : ToString(d) = c

\* <u32 as FromStr>::from_str, as clap's value parser for Option<u32> uses it:
\* a non-empty run of decimal digits (leading zeros accepted); -1 stands for
\* the parse error. Words of up to nine digits are modelled: each of them fits
\* 32 bits, so the overflow error of longer words does not arise.
RECURSIVE DecimalValue(_)
DecimalValue(w) ==
    IF w = <<>> THEN 0 ELSE DecimalValue(SubSeq(w, 1, Len(w) - 1)) * 10 + DigitVal(Last(w))

ParseU32(w) ==
    IF w # <<>> /\ Len(w) <= 9 /\ (\A i \in 1..Len(w) : w[i] \in DigitChunks)
    THEN DecimalValue(w)
    ELSE -1

\* ------------------------------------------------------------------- hosts
\* The literal passed by the release build's get_event_edition.
MetadataHost == <<"https", ":", "/", "/", "obstacle.titlepack.io", "/", "api">>

\* The literal passed by the release build's get_last_edition_of.
EditionListHost == <<"https", ":", ":", "/", "obstacle.titlepack.io", "/", "api">>

\* The default of --host in a localhost_test build.
LocalHost == <<"http", ":", "/", "/", "localhost", ":", "3001">>

\* The literal of download_map's URL, up to the mx_id.
ContentPrefix == <<"https", ":", "/", "/", "sm.mania.exchange", "/", "maps", "/", "download", "/">>

\* reqwest's IntoUrl (url::Url::parse) on an http(s) URL: a scheme, ":", any
\* number of slashes, then a host that is not empty (a ":" or the end of the
\* text right after the slashes is ParseError::EmptyHost).
RECURSIVE SkipSlashes(_)
SkipSlashes(s) == IF s # <<>> /\ Head(s) = "/" THEN SkipSlashes(Tail(s)) ELSE s

UrlParses(url) ==
    /\ Len(url) >= 2
    /\ url[1] \in {"http", "https"}
    /\ url[2] = ":"
    /\ LET rest == SkipSlashes(SubSeq(url, 3, Len(url)))
       IN  rest # <<>> /\ rest[1] \notin {":", "/"}

\* format!("{host}/event/{handle}/{edition}")
EditionUrl(host, handle, edition) ==
    host \o <<"/", "event", "/">> \o handle \o <<"/">> \o U32ToString(edition)

\* format!("{host}/event/{event_handle}")
EditionListUrl(host, handle) == host \o <<"/", "event", "/">> \o handle

\* format!("https://sm.mania.exchange/maps/download/{}", map.mx_id)
MapUrl(mx_id) == ContentPrefix \o Digits(mx_id)

\* ------------------------------------------------------------------- paths
\* Path::is_absolute on Unix.
IsAbsolute(p) == p # <<>> /\ p[1] = "/"

\* PathBuf::join (PathBuf::push on Unix): an absolute argument replaces the
\* path; otherwise a separator is added unless the path is empty or already
\* ends with one.
PathJoin(p, q) ==
    IF IsAbsolute(q) THEN q
    ELSE IF p # <<>> /\ Last(p) # "/" THEN p \o <<"/">> \o q
    ELSE p \o q

\* A file name that leaves the uid out.
MapFileNameFixed(map_uid) == <<"Map.Gbx">>

\* format!("{map_uid}.Map.Gbx")
MapFileName(map_uid) == map_uid \o <<".Map.Gbx">>

\* The components of a path: the maximal runs of chunks between separators.
RECURSIVE Components(_)
Components(p) ==
    IF p = <<>> THEN <<>>
    ELSE IF Head(p) = "/" THEN Components(Tail(p))
    ELSE LET n == CHOOSE k \in 1..Len(p) :
                    /\ \A i \in 1..k : p[i] # "/"
                    /\ (k = Len(p) \/ p[k + 1] = "/")
         IN  <<SubSeq(p, 1, n)>> \o Components(SubSeq(p, n + 1, Len(p)))

\* The directories std::fs::create_dir_all(p) makes sure exist: p and every
\* ancestor of p.
Ancestors(p) ==
    {SubSeq(p, 1, k) : k \in {j \in 1..Len(p) : p[j] # "/" /\ (j = Len(p) \/ p[j + 1] = "/")}}

\* ------------------------------------------------------------ option values
None == [some |-> FALSE]

Some(v) == [some |-> TRUE, val |-> v]

\* ------------------------------------------------------------------ inputs
\* The handle main falls back to when no argument is given.
Campaign == <<"campaign">>

\* Words a user may type as positional arguments: event handles (one of them
\* an absolute path), edition ids in decimal, one with a leading zero, and a
\* word that is no number.
HandleWords == {<<"spring2023">>, <<"/", "srv">>}

NumWords == {U32ToString(n) : n \in 1..MaxId}

PaddedWord == <<"0">> \o U32ToString(1)

BadWord == <<"latest">>

Argvs ==
    {<<>>}
    \cup {<<w>> : w \in HandleWords \cup NumWords}
    \cup {<<h, e>> : h \in HandleWords, e \in NumWords \cup {BadWord}}
    \cup {<<<<"spring2023">>, PaddedWord>>}

\* The default of --out, and another value of it.
DefaultOut == <<".", "/">>

OutArgs == {DefaultOut, <<"out">>}

Builds == {"release", "localhost_test"}

\* What the metadata host may answer the edition-list query with.
SimpleEventEditions == [id : 1..MaxId, name : {"a", "b"}]

EditionLists == SeqsUpTo(SimpleEventEditions, MaxListLen)

\* What the metadata host may answer the edition query with.
Map(mx, uid) == [mx_id |-> mx, map_uid |-> uid]

Category(handle, maps) == [handle |-> handle, maps |-> maps]

EventEdition(name, mx, cats) == [name |-> name, mx_id |-> mx, categories |-> cats]

Editions == {
    EventEdition("two", 10,
        << Category(<<"white">>, << Map(1, <<"w1">>), Map(2, <<"w2">>), Map(3, <<"w3">>) >>),
           Category(<<"green">>, << Map(4, <<"g1">>) >>) >>),
    EventEdition("hollow", 11,
        << Category(<<"white">>, << Map(1, <<"w1">>) >>),
           Category(<<"void">>, << >>) >>),
    EventEdition("rooted", 12,
        << Category(<<"white">>, << Map(5, <<"/", "w5">>), Map(1, <<"w1">>) >>) >>),
    EventEdition("none", 13, << >>) }

\* The body the content host sends for a map, and the body of its error page.
MapBody(mx_id) == <<"gbx">> \o Digits(mx_id)

ErrorBody == <<"404 page">>

\* How one request to the content host can end: a 2xx reply, a non-success
\* reply (which has a body too), or a transport or body-read failure.
Outcomes == {"ok", "http_error", "failed"}

\* ---------------------------------------------------------------- parsing
\* Command::parse(): clap fills the positional arguments in declaration
\* order, event_handle first, then event_edition (parsed as u32); --out is
\* an option. A second word that is no u32 is a clap error (exit before main
\* proceeds).
ParseArgs(av) ==
    [ ok |-> Len(av) < 2 \/ ParseU32(av[2]) >= 0,
      event_handle |-> IF Len(av) >= 1 THEN Some(av[1]) ELSE None,
      event_edition |-> IF Len(av) >= 2 /\ ParseU32(av[2]) >= 0 THEN Some(ParseU32(av[2])) ELSE None ]

\* A match whose first arm forgets the edition given and asks for the latest.
MatchArgsForgetful(a) ==
    CASE a.event_handle.some -> [arm |-> "query", handle |-> a.event_handle.val]
      [] ~a.event_handle.some /\ a.event_edition.some -> [arm |-> "bail"]
      [] OTHER -> [arm |-> "query", handle |-> Campaign]

\* A match that takes edition 1 when none is given instead of looking the
\* latest one up.
MatchArgsDefaulting(a) ==
    CASE a.event_handle.some /\ a.event_edition.some ->
            [arm |-> "both", handle |-> a.event_handle.val, edition |-> a.event_edition.val]
      [] a.event_handle.some /\ ~a.event_edition.some ->
            [arm |-> "both", handle |-> a.event_handle.val, edition |-> 1]
      [] ~a.event_handle.some /\ a.event_edition.some ->
            [arm |-> "bail"]
      [] OTHER ->
            [arm |-> "both", handle |-> Campaign, edition |-> 1]

\* The match of main on (args.event_handle, args.event_edition).
MatchArgs(a) ==
    CASE a.event_handle.some /\ a.event_edition.some ->
            [arm |-> "both", handle |-> a.event_handle.val, edition |-> a.event_edition.val]
      [] a.event_handle.some /\ ~a.event_edition.some ->
            [arm |-> "query", handle |-> a.event_handle.val]
      [] ~a.event_handle.some /\ a.event_edition.some ->
            [arm |-> "bail"]
      [] OTHER ->
            [arm |-> "query", handle |-> Campaign]

\* The host the two wrappers of main.rs hand to imp.rs, by build.
EventEditionHost(b) == IF b = "localhost_test" THEN LocalHost ELSE MetadataHost

LastEditionHost(b) == IF b = "localhost_test" THEN LocalHost ELSE EditionListHost

\* Iterator::max_by_key(|o| o.id): the last element among those of maximum
\* key; None on an empty iterator.
RECURSIVE MaxByKeyFrom(_, _)
MaxByKeyFrom(best, rest) ==
    IF rest = <<>> THEN best
    ELSE MaxByKeyFrom(IF Head(rest).id >= best.id THEN Head(rest) ELSE best, Tail(rest))

\* min_by_key in the place of max_by_key.
MinByKey(list) ==
    IF list = <<>> THEN None
    ELSE Some(CHOOSE e \in Range(list) : \A f \in Range(list) : e.id <= f.id)

MaxByKey(list) == IF list = <<>> THEN None ELSE Some(MaxByKeyFrom(Head(list), Tail(list)))

\* ------------------------------------------------------------------- state
VARIABLES
    build,          \* which cfg the binary was built with
    argv,           \* the positional words of the command line
    out,            \* the value of --out
    pc,             \* where main is: "start", an await, a write step, "exited"
    exit,           \* how the process ended: "none", "ok", "err", "panic", "clap"
    err,            \* the message of the error main returned
    event_handle,   \* Option: the handle main works on
    event_edition,  \* Option: the edition id main works on
    editions,       \* Option: the list the edition-list query was answered with
    last_edition,   \* Option: what get_last_edition_of returned
    event,          \* Option: the EventEdition fetched
    reqs,           \* every request handed to the network, in order
    tasks,          \* the handles of the download_category futures created
    dl,             \* dl[c][m]: state of the download of map m of category c
    got,            \* got[c]: the (map_uid, bytes) pairs collected so far
    cur,            \* the category whose result main is writing
    wi,             \* the index in got[cur] of the next pair to write
    dirs,           \* the directories created
    files,          \* the files written: records [path, content]
    refused         \* whether the file system has refused a create_dir_all or a write

vars == <<build, argv, out, pc, exit, err, event_handle, event_edition, editions,
          last_edition, event, reqs, tasks, dl, got, cur, wi, dirs, files, refused>>

inputs == <<build, argv, out>>

disk == <<dirs, files>>

Init ==
    /\ build \in Builds
    /\ argv \in Argvs
    /\ out \in OutArgs
    /\ pc = "start"
    /\ exit = "none"
    /\ err = ""
    /\ event_handle = None
    /\ event_edition = None
    /\ editions = None
    /\ last_edition = None
    /\ event = None
    /\ reqs = <<>>
    /\ tasks = <<>>
    /\ dl = <<>>
    /\ got = <<>>
    /\ cur = 0
    /\ wi = 0
    /\ dirs = {}
    /\ files = {}
    /\ refused = FALSE

\* ------------------------------------------------------------ the process
\* Downloads in flight are dropped with the future that owns them.
Drop(d) == [c \in DOMAIN d |-> [m \in DOMAIN d[c] |-> IF d[c][m] = "inflight" THEN "dropped" ELSE d[c][m]]]

\* main returns Err (or the process panics, or clap exits): everything main
\* owns is dropped.
ExitDropping(kind, msg, d) ==
    /\ pc' = "exited"
    /\ exit' = kind
    /\ err' = msg
    /\ dl' = Drop(d)

Exit(kind, msg) == ExitDropping(kind, msg, dl)

\* reqwest's RequestBuilder::send: a URL that does not parse is an error
\* returned without any request; otherwise the request goes out and the
\* caller waits.
Send(kind, url, wait) ==
    IF UrlParses(url)
    THEN /\ reqs' = Append(reqs, [kind |-> kind, url |-> url])
         /\ pc' = wait
         /\ UNCHANGED <<exit, err, dl>>
    ELSE /\ Exit("err", "builder error")
         /\ UNCHANGED reqs

\* imp::get_event_edition up to its first await, called by the wrapper of
\* the build.
GetEventEdition(handle, edition) ==
    Send("edition", EditionUrl(EventEditionHost(build), handle, edition), "await_edition")

\* imp::get_last_edition_of up to its first await, called by the wrapper of
\* the build.
GetLastEditionOf(handle) ==
    Send("editions", EditionListUrl(LastEditionHost(build), handle), "await_editions")

\* main from Command::parse() to its first await.
Start ==
    /\ pc = "start"
    /\ LET a == ParseArgs(argv)
           m == MatchArgs(a)
       IN  IF ~a.ok
           THEN /\ Exit("clap", "invalid value for [EVENT_EDITION]")
                /\ UNCHANGED <<reqs, event_handle, event_edition>>
           ELSE CASE m.arm = "both" ->
                       /\ event_handle' = Some(m.handle)
                       /\ event_edition' = Some(m.edition)
                       /\ GetEventEdition(m.handle, m.edition)
                  [] m.arm = "query" ->
                       /\ event_handle' = Some(m.handle)
                       /\ event_edition' = None
                       /\ GetLastEditionOf(m.handle)
                  [] OTHER ->
                       /\ Exit("err", "Cannot provide an edition ID without an event handle")
                       /\ UNCHANGED <<reqs, event_handle, event_edition>>
    /\ UNCHANGED <<inputs, refused, editions, last_edition, event, tasks, got, cur, wi, disk>>

\* The replies the metadata host can give to the edition-list query: none
\* (transport error), a body that is no JSON array of editions, or a list.
EditionsReplies ==
    {[tag |-> "transport_error"], [tag |-> "bad_json"]}
    \cup {[tag |-> "json", body |-> l] : l \in EditionLists}

\* The reply to the edition-list query arrives: the rest of
\* imp::get_last_edition_of, then main up to the await of get_event_edition.
EditionsResponse ==
    /\ pc = "await_editions"
    /\ \E r \in EditionsReplies :
        CASE r.tag = "transport_error" ->
                /\ Exit("err", "error sending request")
                /\ UNCHANGED <<reqs, event_edition, editions, last_edition>>
          [] r.tag = "bad_json" ->
                /\ Exit("err", "Unable to parse JSON response for event editions")
                /\ UNCHANGED <<reqs, event_edition, editions, last_edition>>
          [] OTHER ->
                LET sel == MaxByKey(r.body)
                IN  IF ~sel.some
                    THEN /\ Exit("panic", "called Option::unwrap() on a None value")
                         /\ editions' = Some(r.body)
                         /\ UNCHANGED <<reqs, event_edition, last_edition>>
                    ELSE /\ editions' = Some(r.body)
                         /\ last_edition' = sel
                         /\ event_edition' = Some(sel.val.id)
                         /\ GetEventEdition(event_handle.val, sel.val.id)
    /\ UNCHANGED <<inputs, refused, event_handle, event, tasks, got, cur, wi, disk>>

\* ------------------------------------------------------------ the fan-out
Min(a, b) == IF a < b THEN a ELSE b

\* StreamExt::buffer_unordered(max), first poll: futures are pulled from the
\* underlying iterator while fewer than max are in progress.
BufferFill(n, max) == Min(n, max)

\* StreamExt::buffer_unordered(max) yields None (the stream ends) when no
\* future is in progress and the underlying iterator, which is polled only
\* while fewer than max futures are in progress, has ended.
BufferEnds(in_progress, max) == in_progress = 0 /\ 0 < max

InFlight(st) == Cardinality({m \in DOMAIN st : st[m] = "inflight"})

\* A collection that skips the downloads that failed instead of ending on
\* the first Err (filter_map(Result::ok).collect()).
CollectLenient(st, max) == IF BufferEnds(InFlight(st), max) THEN "ok" ELSE "pending"

\* A collection that hands over what it has as soon as one download is done.
CollectEager(st, max) ==
    IF \E m \in DOMAIN st : st[m] = "failed" THEN "err"
    ELSE IF \E m \in DOMAIN st : st[m] # "inflight" THEN "ok"
    ELSE "pending"

\* A collection that waits for every download before it reports the first
\* Err (join_all, then collect::<Result<Vec<_>, _>>()).
CollectJoined(st, max) ==
    IF ~BufferEnds(InFlight(st), max) THEN "pending"
    ELSE IF \E m \in DOMAIN st : st[m] = "failed" THEN "err"
    ELSE "ok"

\* TryStreamExt::try_collect over the buffer of a category's downloads: the
\* first Err ends it with that Err; otherwise it ends with the Vec when the
\* stream ends.
TryCollect(st, max) ==
    IF \E m \in DOMAIN st : st[m] = "failed" THEN "err"
    ELSE IF BufferEnds(InFlight(st), max) THEN "ok"
    ELSE "pending"

\* The requests of the download_map futures that the first poll of
\* cats.next() starts: every category is pulled (cats_len at most in
\* progress), and every map of each (maps_len at most in progress).
MapRequests(cats) ==
    Flatten([c \in 1..BufferFill(Len(cats), Len(cats)) |->
        [m \in 1..BufferFill(Len(cats[c].maps), Len(cats[c].maps)) |->
            [kind |-> "map", url |-> MapUrl(cats[c].maps[m].mx_id)]]])

\* The replies the metadata host can give to the edition query.
EditionReplies == {[tag |-> "error"]} \cup {[tag |-> "json", body |-> e] : e \in Editions}

\* The reply to the edition query arrives: the rest of imp::get_event_edition,
\* then main up to the first poll of cats.next(), which starts every
\* download_category future and, inside each, every download_map request.
EventResponse ==
    /\ pc = "await_edition"
    /\ \E r \in EditionReplies :
        IF r.tag = "error"
        THEN /\ Exit("err", "Failed to parse JSON from response")
             /\ UNCHANGED <<event, reqs, tasks, got>>
        ELSE LET cats == r.body.categories
                 n == BufferFill(Len(cats), Len(cats))
             IN  /\ event' = Some(r.body)
                 /\ tasks' = [c \in 1..n |-> cats[c].handle]
                 /\ reqs' = reqs \o MapRequests(cats)
                 /\ dl' = [c \in 1..n |->
                            [m \in 1..BufferFill(Len(cats[c].maps), Len(cats[c].maps)) |-> "inflight"]]
                 /\ got' = [c \in 1..n |-> <<>>]
                 /\ pc' = "cats_next"
                 /\ UNCHANGED <<exit, err>>
    /\ editions' = None
    /\ last_edition' = None
    /\ UNCHANGED <<inputs, refused, event_handle, event_edition, cur, wi, disk>>

\* What download_map returns for a reply: the body of the response, whatever
\* its status (the status is not looked at).
Body(o, mx_id) == IF o = "ok" THEN MapBody(mx_id) ELSE ErrorBody

\* A pairing of the bytes with the uid at the position of arrival (a zip of
\* cat.maps with the results, which come in completion order).
DownloadedByArrival(c, m, o) ==
    [map_uid |-> event.val.categories[c].maps[Len(got[c]) + 1].map_uid,
     content |-> Body(o, event.val.categories[c].maps[m].mx_id)]

\* The Ok value of download_map for map m of category c: the map's own uid
\* paired with the body received.
Downloaded(c, m, o) ==
    [map_uid |-> event.val.categories[c].maps[m].map_uid,
     content |-> Body(o, event.val.categories[c].maps[m].mx_id)]

\* A loop that logs an Err item and goes on to the next one.
MainSkipsErr(c, d) ==
    /\ dl' = [d EXCEPT ![c] = [m \in DOMAIN d[c] |-> IF d[c][m] = "inflight" THEN "dropped" ELSE d[c][m]]]
    /\ UNCHANGED <<pc, exit, err, cur>>

\* main on an Err item of cats (`cat?`): main returns the error.
MainOnErr(c, d) ==
    /\ ExitDropping("err", "Unable to collect maps downloads", d)
    /\ UNCHANGED cur

\* A loop over the results of all categories joined (join_all): nothing is
\* written until every category has completed.
MainOnOkJoined(c, d) ==
    /\ dl' = d
    /\ IF \A k \in DOMAIN d : d[k] # <<>> /\ \A m \in DOMAIN d[k] : d[k][m] \in {"ok", "http_error"}
       THEN pc' = "mkdir" /\ cur' = c
       ELSE UNCHANGED <<pc, cur>>
    /\ UNCHANGED <<exit, err>>

\* main on an Ok item of cats: the write of that category starts.
MainOnOk(c, d) ==
    /\ pc' = "mkdir"
    /\ cur' = c
    /\ dl' = d
    /\ UNCHANGED <<exit, err>>

\* One download_map of category c completes while main awaits cats.next():
\* download_map returns, try_collect of the category takes the item, and if
\* that ends download_category, cats yields its result to main.
MapResponse(c, m, o) ==
    /\ pc = "cats_next"
    /\ dl[c][m] = "inflight"
    /\ LET st == [dl[c] EXCEPT ![m] = o]
           d == [dl EXCEPT ![c] = st]
           res == TryCollect(st, Len(event.val.categories[c].maps))
       IN  /\ got' = IF o = "failed" THEN got
                     ELSE [got EXCEPT ![c] = Append(@, Downloaded(c, m, o))]
           /\ CASE res = "err" -> MainOnErr(c, d)
                [] res = "ok" -> MainOnOk(c, d)
                [] OTHER -> dl' = d /\ UNCHANGED <<pc, exit, err, cur>>
    /\ UNCHANGED <<inputs, refused, event_handle, event_edition, editions, last_edition, event,
                   reqs, tasks, wi, disk>>

\* ----------------------------------------------------------- the write loop
\* out_path.join(event_handle).join(event_edition.to_string())
OutPath == PathJoin(PathJoin(out, event_handle.val), U32ToString(event_edition.val))

\* out_path.join(cat_handle)
CatDir(c) == PathJoin(OutPath, event.val.categories[c].handle)

\* cat_dir.join(format!("{map_uid}.Map.Gbx"))
MapPath(c, map_uid) == PathJoin(CatDir(c), MapFileName(map_uid))

\* An I/O error that is retried instead of returned.
OnIoErrorRetry(msg) == UNCHANGED <<pc, exit, err, dl>>

\* `.context(msg)?` on the result of create_dir_all or write: main returns
\* the error.
OnIoError(msg) == Exit("err", msg)

\* std::fs::create_dir_all(&cat_dir), which the file system may refuse.
CreateDir ==
    /\ pc = "mkdir"
    /\ \E ok \in BOOLEAN :
        IF ok
        THEN /\ dirs' = dirs \cup Ancestors(CatDir(cur))
             /\ pc' = IF got[cur] = <<>> THEN "cats_next" ELSE "write"
             /\ wi' = 1
             /\ UNCHANGED <<exit, err, dl, refused>>
        ELSE /\ refused' = TRUE
             /\ OnIoError("Unable to create directory")
             /\ UNCHANGED <<dirs, wi>>
    /\ UNCHANGED <<inputs, event_handle, event_edition, editions, last_edition, event,
                   reqs, tasks, got, cur, files>>

\* std::fs::write of the next pair of the category, which the file system
\* may refuse; after the last pair main polls cats.next() again.
WriteMap ==
    /\ pc = "write"
    /\ \E ok \in BOOLEAN :
        IF ok
        THEN LET p == MapPath(cur, got[cur][wi].map_uid)
             IN  /\ files' = {f \in files : f.path # p}
                             \cup {[path |-> p, content |-> got[cur][wi].content]}
                 /\ wi' = wi + 1
                 /\ pc' = IF wi = Len(got[cur]) THEN "cats_next" ELSE "write"
                 /\ UNCHANGED <<exit, err, dl, refused>>
        ELSE /\ refused' = TRUE
             /\ OnIoError("Unable to write map file")
             /\ UNCHANGED <<files, wi>>
    /\ UNCHANGED <<inputs, event_handle, event_edition, editions, last_edition, event,
                   reqs, tasks, got, cur, dirs>>

\* cats.next() yields None: the loop ends and main returns Ok(()).
Finish ==
    /\ pc = "cats_next"
    /\ BufferEnds(Cardinality({c \in DOMAIN dl : TryCollect(dl[c], Len(event.val.categories[c].maps)) # "ok"}),
                  Len(event.val.categories))
    /\ pc' = "exited"
    /\ exit' = "ok"
    /\ UNCHANGED <<inputs, refused, err, event_handle, event_edition, editions, last_edition, event,
                   reqs, tasks, dl, got, cur, wi, disk>>

Next ==
    \/ Start
    \/ EditionsResponse
    \/ EventResponse
    \/ \E c \in DOMAIN dl : \E m \in DOMAIN dl[c] : \E o \in Outcomes : MapResponse(c, m, o)
    \/ CreateDir
    \/ WriteMap
    \/ Finish

Spec == Init /\ [][Next]_vars

\* main's own steps are synchronous calls that return: once main is at a
\* create_dir_all or a write, it takes that step. Nothing is assumed of the
\* network: a request may stay without a reply for ever.
FairSpec == Spec /\ WF_vars(CreateDir) /\ WF_vars(WriteMap)

\* =================================================================== claims
Failed(c) == \E m \in DOMAIN dl[c] : dl[c][m] = "failed"

SomeFailed == \E c \in DOMAIN dl : Failed(c)

MapsOf(c) == event.val.categories[c].maps

\* The files on disk at the paths main writes the maps of category c to.
FilesOf(c) == {f \in files : \E m \in DOMAIN MapsOf(c) : f.path = MapPath(c, MapsOf(c)[m].map_uid)}

\* main holds the Ok result of download_category for c.
Holds(c) == pc \in {"mkdir", "write"} /\ cur = c

UsageError == "Cannot provide an edition ID without an event handle"

\* C1: when the latest edition is looked up and the metadata host answers with
\* an empty list, the run ends in an error that main returns; it does not
\* panic.
C1_EmptyListIsAnError ==
    (editions.some /\ editions.val = <<>>) => (exit = "err")

\* C2: download_category returns a map list only when every map of the
\* category was downloaded, and the list then holds one pair per map; as soon
\* as one download of the category has failed its result is the error, which
\* the run ends with.
C2_AtomicByCategory ==
    \A c \in DOMAIN dl :
        /\ Holds(c) =>
              /\ \A m \in DOMAIN dl[c] : dl[c][m] \in {"ok", "http_error"}
              /\ Len(got[c]) = Len(MapsOf(c))
              /\ {g.map_uid : g \in Range(got[c])} = {x.map_uid : x \in Range(MapsOf(c))}
        /\ Failed(c) =>
              /\ ~Holds(c)
              /\ exit = "err"
              /\ err = "Unable to collect maps downloads"

\* C2 witness: a download of a category failed after another download of the
\* same category had been collected.
C2_Witness == \E c \in DOMAIN dl : Failed(c) /\ got[c] # <<>>

\* C3: a category one of whose downloads failed has no file on disk, in any
\* order of completions, and no step removes or changes a file written
\* earlier (those of sibling categories stay).
C3_NoFileOfFailedCategory ==
    /\ [](\A c \in DOMAIN dl : Failed(c) => FilesOf(c) = {})
    /\ [][files \subseteq files']_vars

\* C3 witness: a download of one category failed while the files of a sibling
\* category, written before, are on disk.
C3_Witness ==
    \E c, s \in DOMAIN dl : c # s /\ Failed(c) /\ FilesOf(s) # {} /\ Len(MapsOf(c)) > 1

\* C4: once a category result is an error the run has ended with that error,
\* and no step after that creates a directory or writes a file.
C4_FailFastNoRollback ==
    /\ [](SomeFailed => pc = "exited" /\ exit = "err")
    /\ [][SomeFailed => UNCHANGED disk]_vars

\* C4 witness: a category result is an error while downloads were still in
\* flight (they are dropped), and files written before are on disk.
C4_Witness ==
    /\ SomeFailed
    /\ files # {}
    /\ \E c \in DOMAIN dl : \E m \in DOMAIN dl[c] : dl[c][m] = "dropped"

\* C5: a command line whose only positional word is an edition id ends with
\* the usage error, with no request issued and nothing written.
C5_EditionAloneIsUsageError ==
    (Len(argv) = 1 /\ ParseU32(argv[1]) >= 0) =>
        /\ reqs = <<>>
        /\ dirs = {} /\ files = {}
        /\ pc # "start" => (exit = "err" /\ err = UsageError)

\* The requests of a kind among those issued, in order.
RECURSIVE OfKind(_, _)
OfKind(rs, k) ==
    IF rs = <<>> THEN <<>>
    ELSE (IF Head(rs).kind = k THEN <<Head(rs)>> ELSE <<>>) \o OfKind(Tail(rs), k)

\* The number a word of decimal digits denotes.
Typed(w) == DecimalValue(w)

BothGiven == Len(argv) = 2 /\ ParseU32(argv[2]) >= 0

\* C6: with a handle and an edition id on the command line, main works on
\* that handle and that edition, never issues an edition-list query, and its
\* first request is the edition query {host}/event/{handle}/{edition}.
C6_BothGivenNoListQuery ==
    BothGiven =>
        /\ OfKind(reqs, "editions") = <<>>
        /\ pc # "start" =>
              /\ event_handle = Some(argv[1])
              /\ event_edition = Some(Typed(argv[2]))
              /\ reqs # <<>>
              /\ reqs[1].kind = "edition"
              /\ \E host \in {MetadataHost, LocalHost} :
                    reqs[1].url = host \o <<"/", "event", "/">> \o argv[1] \o <<"/">>
                                       \o Digits(Typed(argv[2]))

\* C6 witness: the edition query is in flight for a handle and an edition
\* typed with a leading zero.
C6_Witness == BothGiven /\ pc = "await_edition" /\ argv[2] = PaddedWord

\* The positions of a list whose id is the greatest of the list.
MaxPositions(l) == {i \in 1..Len(l) : \A j \in 1..Len(l) : l[j].id <= l[i].id}

\* C7: the edition resolved from a non-empty edition list is an element of
\* the list whose id no other element exceeds, and it is a function of the
\* list: the element at the last position holding the greatest id.
C7_ResolvesMaximumId ==
    last_edition.some =>
        /\ editions.some /\ editions.val # <<>>
        /\ last_edition.val \in Range(editions.val)
        /\ \A e \in Range(editions.val) : e.id <= last_edition.val.id
        /\ \A i \in MaxPositions(editions.val) :
              (\A j \in MaxPositions(editions.val) : j <= i) => last_edition.val = editions.val[i]
        /\ event_edition = Some(last_edition.val.id)

\* C7 witness: an edition was resolved from a list in which two different
\* elements share the greatest id.
C7_Witness ==
    /\ last_edition.some
    /\ Cardinality({editions.val[i] : i \in MaxPositions(editions.val)}) > 1

\* The path of the claim's template, {out}/{handle}/{edition}/{category}/{uid}.Map.Gbx.
TemplatePath(o, handle, edition, cat, uid) ==
    o \o <<"/">> \o handle \o <<"/">> \o Digits(edition) \o <<"/">> \o cat \o <<"/">> \o uid
      \o <<".Map.Gbx">>

\* Two texts name the same path: both absolute or both relative, with the
\* same components.
SamePath(p, q) == IsAbsolute(p) = IsAbsolute(q) /\ Components(p) = Components(q)

\* C8: with no positional argument the first request is the edition-list
\* query of "campaign" on the metadata host, the edition worked on is the
\* greatest id M of the list, the edition query is for campaign and M, and a
\* run that succeeds has written the file of every map under
\* {out}/campaign/M/.
C8_DefaultsToCampaign ==
    (argv = <<>> /\ pc # "start") =>
        /\ event_handle = Some(Campaign)
        /\ reqs # <<>>
        /\ reqs[1].kind = "editions"
        /\ \E host \in {MetadataHost, LocalHost} :
              reqs[1].url = host \o <<"/", "event", "/">> \o Campaign
        /\ exit = "ok" =>
              \A c \in DOMAIN dl : \A m \in DOMAIN MapsOf(c) :
                 \E f \in files :
                    SamePath(f.path, TemplatePath(out, Campaign, event_edition.val,
                                                  event.val.categories[c].handle,
                                                  MapsOf(c)[m].map_uid))

TotalMaps == Len(Flatten([c \in DOMAIN event.val.categories |-> MapsOf(c)]))

\* C9: one download request is issued per map and never another (no retry,
\* no duplicate), in one download_category task per category; a run that
\* succeeds ends with one file per map and one directory per category.
C9_OneRequestOneFilePerMap ==
    /\ event.some =>
          /\ Len(tasks) = Len(event.val.categories)
          /\ \A c \in DOMAIN tasks : tasks[c] = event.val.categories[c].handle
          /\ Len(OfKind(reqs, "map")) = TotalMaps
          /\ \A c \in DOMAIN event.val.categories : \A m \in DOMAIN MapsOf(c) :
                Cardinality({i \in DOMAIN reqs :
                    reqs[i] = [kind |-> "map",
                               url |-> ContentPrefix \o Digits(MapsOf(c)[m].mx_id)]}) = 1
    /\ exit = "ok" =>
          /\ Cardinality(files) = TotalMaps
          /\ \A c \in DOMAIN event.val.categories : \A m \in DOMAIN MapsOf(c) :
                Cardinality({f \in files : f.path = MapPath(c, MapsOf(c)[m].map_uid)}) = 1
          /\ Cardinality({CatDir(c) : c \in DOMAIN event.val.categories})
                = Len(event.val.categories)
          /\ dirs = UNION {Ancestors(CatDir(c)) : c \in DOMAIN event.val.categories}

\* C9 witness: a run on an edition of two categories, of three maps and of
\* one, succeeded: four requests, two tasks, four files.
C9_Witness ==
    /\ exit = "ok"
    /\ Len(event.val.categories) = 2
    /\ Len(MapsOf(1)) = 3 /\ Len(MapsOf(2)) = 1
    /\ Len(OfKind(reqs, "map")) = 4
    /\ Len(tasks) = 2
    /\ Cardinality(files) = 4

\* C10: every file written is at {out}/{handle}/{edition}/{category}/{uid}.Map.Gbx
\* for the handle and edition main works on and a map of the edition, so
\* that --out is the leading part of every path written.
C10_PathIsTheTemplate ==
    \A f \in files :
        \E c \in DOMAIN event.val.categories : \E m \in DOMAIN MapsOf(c) :
            SamePath(f.path, TemplatePath(out, event_handle.val, event_edition.val,
                                          event.val.categories[c].handle,
                                          MapsOf(c)[m].map_uid))

\* C11: a reply of non-success status from the content host makes the
\* download of that map fail: its body is never collected as the bytes of a
\* map, and never written to a file.
C11_NonSuccessReplyFails ==
    /\ \A c \in DOMAIN dl : \A m \in DOMAIN dl[c] : dl[c][m] = "http_error" => exit = "err"
    /\ \A c \in DOMAIN got : \A g \in Range(got[c]) : g.content # ErrorBody
    /\ \A f \in files : f.content # ErrorBody

\* The categories an edition may have.
CatIds == UNION {DOMAIN e.categories : e \in Editions}

\* Every download of category c has completed with an Ok of download_map.
Completed(c) ==
    /\ c \in DOMAIN dl
    /\ dl[c] # <<>>
    /\ \A m \in DOMAIN dl[c] : dl[c][m] \in {"ok", "http_error"}

\* Every map of category c has its file on disk.
Written(c) ==
    /\ c \in DOMAIN dl
    /\ \A m \in DOMAIN MapsOf(c) : \E f \in files : f.path = MapPath(c, MapsOf(c)[m].map_uid)

\* C12: a category whose downloads have all completed is eventually written
\* (unless the file system refuses), whether or not the downloads of the
\* other categories ever complete.
C12_CompletedCategoryIsWritten ==
    \A c \in CatIds : Completed(c) ~> (Written(c) \/ refused)

\* C12 witness: the files of a category are on disk while a download of
\* another category is still in flight.
C12_Witness ==
    \E c, s \in DOMAIN dl :
        /\ c # s
        /\ Completed(c) /\ Written(c)
        /\ \E m \in DOMAIN dl[s] : dl[s][m] = "inflight"

\* C13: when a download of a category has completed with an error, the
\* category's result is the error at once: no other download of the category
\* is still awaited (those in flight are dropped), the run has ended with the
\* error, and nothing that happens afterwards changes the result, what was
\* collected or the disk.
C13_FailFastWithinCategory ==
    /\ [](\A c \in DOMAIN dl : Failed(c) =>
             /\ \A m \in DOMAIN dl[c] : dl[c][m] # "inflight"
             /\ pc = "exited" /\ exit = "err")
    /\ [][SomeFailed => UNCHANGED <<exit, err, dl, got, disk>>]_vars

\* C13 witness: a download of a category failed while another download of
\* the same category was in flight, which was dropped.
C13_Witness ==
    \E c \in DOMAIN dl : Failed(c) /\ \E m \in DOMAIN dl[c] : dl[c][m] = "dropped"

\* C14: the disk is written by main's loop alone, one create_dir_all or one
\* file at a step, for the category main holds the result of; and the
\* directory or a file of a category exists only when every download of that
\* category has completed.
C14_SequentialWritesAfterCompletion ==
    /\ [](\A c \in DOMAIN dl : (CatDir(c) \in dirs \/ FilesOf(c) # {}) => Completed(c))
    /\ [][disk' # disk =>
            /\ pc \in {"mkdir", "write"}
            /\ Cardinality(files' \ files) <= 1
            /\ files' # files => dirs' = dirs
            /\ \A f \in files' \ files : \E g \in Range(got[cur]) : f.path = MapPath(cur, g.map_uid)]_vars

\* C14 witness: main is in the middle of writing a category of several maps,
\* one file written and more to write, while another category is in flight.
C14_Witness ==
    /\ pc = "write"
    /\ wi > 1
    /\ FilesOf(cur) # {}
    /\ \E s \in DOMAIN dl : s # cur /\ \E m \in DOMAIN dl[s] : dl[s][m] = "inflight"

\* The handle whose latest edition a command line without edition asks for.
LookedUp == IF argv = <<>> THEN Campaign ELSE argv[1]

\* C15: when the latest edition is looked up, the edition-list request goes
\* out, to {host}/event/{handle} on the host the edition request
\* {host}/event/{handle}/{edition} uses, so that the host can answer it.
C15_ListQueryOnTheMetadataHost ==
    (Len(argv) <= 1 /\ pc # "start") =>
        /\ reqs # <<>>
        /\ reqs[1].kind = "editions"
        /\ reqs[1].url = EventEditionHost(build) \o <<"/", "event", "/">> \o LookedUp

\* The stage of the pipeline a request belongs to.
Stage(k) == CASE k = "editions" -> 1 [] k = "edition" -> 2 [] OTHER -> 3

\* C16: requests go out stage by stage: the edition-list query (one at most),
\* then the edition query (one at most), issued only once the edition is
\* known and, when none was given, after the list query; then the map
\* downloads, issued only once the edition was fetched. A run whose
\* resolution or edition fetch failed has issued no map download and written
\* nothing.
C16_StrictlyForward ==
    /\ \A i, j \in DOMAIN reqs : i < j => Stage(reqs[i].kind) <= Stage(reqs[j].kind)
    /\ Len(OfKind(reqs, "editions")) <= 1
    /\ Len(OfKind(reqs, "edition")) <= 1
    /\ OfKind(reqs, "edition") # <<>> =>
          /\ event_edition.some
          /\ Len(argv) <= 1 => (reqs[1].kind = "editions" /\ pc # "await_editions")
    /\ ~event.some => (OfKind(reqs, "map") = <<>> /\ dirs = {} /\ files = {})
    /\ (pc = "exited" /\ ~event.some) => exit # "ok"

\* C16 witness: the three stages happened in one run: list query, edition
\* query, map downloads.
C16_Witness ==
    /\ OfKind(reqs, "editions") # <<>>
    /\ OfKind(reqs, "edition") # <<>>
    /\ OfKind(reqs, "map") # <<>>
    /\ files # {}

IoErrors == {"Unable to create directory", "Unable to write map file"}

\* C17: when the file system refuses a create_dir_all or a write, the run
\* has ended with that error; no step afterwards creates a directory or
\* writes a file, and no step removes a directory or a file written before.
C17_IoErrorIsFatal ==
    /\ [](refused => (pc = "exited" /\ exit = "err" /\ err \in IoErrors))
    /\ [][refused => UNCHANGED disk]_vars
    /\ [][files \subseteq files' /\ dirs \subseteq dirs']_vars

\* C17 witness: a write was refused in the middle of a category: some of its
\* files are on disk, others are not, and they are still there after the end.
C17_Witness ==
    /\ refused
    /\ cur \in DOMAIN dl
    /\ FilesOf(cur) # {}
    /\ ~Written(cur)

SomeInFlight == \E c \in DOMAIN dl : \E m \in DOMAIN dl[c] : dl[c][m] = "inflight"

\* C18: for every edition fetched, with no category or with a category of no
\* map too, main never waits on cats.next() with no request in flight and no
\* end of the stream to come: either a download is still to complete or the
\* loop can end.
C18_NeverWaitsOnNothing ==
    pc = "cats_next" => (SomeInFlight \/ ENABLED Finish)


\* C19: under any completion order of the downloads and of the categories,
\* every file written lies at the path of a map of the fetched edition in that
\* map's own category directory, and holds exactly the body the host returned
\* to the request for that map's mx_id.
C19_BytesRoutedToTheirMap ==
    \A f \in files :
        /\ \E c \in DOMAIN dl : \E m \in DOMAIN MapsOf(c) :
               f.path = MapPath(c, MapsOf(c)[m].map_uid)
        /\ \A c \in DOMAIN dl : \A m \in DOMAIN MapsOf(c) :
               f.path = MapPath(c, MapsOf(c)[m].map_uid)
                   => f.content = Body(dl[c][m], MapsOf(c)[m].mx_id)

\* A file was written for a download that completed out of the input order.
C19_Witness ==
    \E c \in DOMAIN dl :
        /\ got[c] # <<>>
        /\ got[c][1].map_uid # MapsOf(c)[1].map_uid
        /\ \E f \in files : f.path = MapPath(c, got[c][1].map_uid)


NonSuccessReply == \E c \in DOMAIN dl : \E m \in DOMAIN dl[c] : dl[c][m] = "http_error"

\* C20: the run ends with success only if every map of every category of the
\* fetched edition was downloaded successfully and its file, holding the
\* map's body, was written; after a failed download, directory creation or
\* file write the outcome is an error.
C20_SuccessMeansComplete ==
    /\ exit = "ok" =>
           /\ event.some
           /\ \A c \in DOMAIN dl : \A m \in DOMAIN MapsOf(c) :
                  /\ dl[c][m] = "ok"
                  /\ \E f \in files : /\ f.path = MapPath(c, MapsOf(c)[m].map_uid)
                                      /\ f.content = MapBody(MapsOf(c)[m].mx_id)
    /\ (pc = "exited" /\ (SomeFailed \/ NonSuccessReply \/ refused)) => exit = "err"

====
